---- MODULE Spec2Model ----
(***************************************************************************)
(* A model of the mill height controller: the Mill state machine of        *)
(* src/src/lib.rs with its RotaryEncoder and StepperMotor, and the         *)
(* firmware of src/src/main.rs that drives it from the foreground loop and *)
(* the three EXTI interrupt handlers.                                      *)
(*                                                                         *)
(* Every u32 of the program is modelled at a reduced word width, WordBits  *)
(* bits: TLC's integers cannot hold 2^32.  Arithmetic keeps the shape of   *)
(* the code's: a plain + or - overflows at U32_MAX and then either panics  *)
(* (a build with overflow checks) or wraps (a build without them).         *)
(***************************************************************************)
EXTENDS Integers, Sequences, FiniteSets, TLC

\* ------------------------------------------------------------- bounds ---

\* width of the modelled u32
WordBits == 7
\* configurations of the library specification
MaxHeight == 3
MaxStepsPerMm == 2
MaxStepsPerTick == 2
\* the firmware's travel in millimetres (main.rs: 48)
MaxMm == 2

U32_MAX == 2^WordBits - 1

\* ----------------------------------------------------- program constants

\* main.rs: const STEPS_PER_LOOP: u32 = 1;
STEPS_PER_LOOP == 1
\* main.rs: const SIA_ROTATION_DELAY: u32 = 100;
SIA_ROTATION_DELAY == 100

\* ------------------------------------------------------------- state ----

VARIABLES
    \* Mill's configuration (immutable after Mill::new) and the build profile
    max_height, motor_steps_per_mm, motor_steps_per_tick, overflow_checks,
    \* Mill's fields
    target_height, current_height,
    \* RotaryEncoder.current and StepperMotor.is_enabled
    encoder_current, is_enabled,
    \* the most recent frame passed to Screen::update
    display,
    \* what the last call did: which operation, its result, the motor-line
    \* writes it attempted, the frames it passed to Screen::update, the level
    \* it read from the limit switch, the rotation it decoded, the levels it
    \* read from the encoder's phases A and B
    last_op, result, writes, frames, limit_read, rotation, sia_read, sib_read,
    \* the operation of the call before the last
    prev_op,
    \* the firmware: panicked (a panic handler never returns), whether MILL
    \* holds the controller, PRIMASK, the pending EXTI lines, the position of
    \* the foreground loop, the active interrupt handler, LAST_SIA_INTERRUPT,
    \* and the value timer.now().elapsed() returns when read
    panicked, mill_installed, primask, pending, main_pc, isr, last_sia, elapsed,
    \* StepperMotor: the mode argument of the last set_mode and the levels of
    \* the mode-select lines m1, m2, m3
    mode, mode_lines

config_vars == <<max_height, motor_steps_per_mm, motor_steps_per_tick, overflow_checks>>
mill_vars == <<target_height, current_height, encoder_current, is_enabled, display>>
call_vars == <<last_op, result, writes, frames, limit_read, rotation, sia_read,
               sib_read, prev_op>>
firmware_vars == <<mill_installed, primask, pending, main_pc, isr, last_sia, elapsed>>
motor_vars == <<mode, mode_lines>>
vars == <<config_vars, mill_vars, call_vars, firmware_vars, panicked, motor_vars>>

\* Option<u32>
None == <<>>
Some(h) == <<h>>

\* ------------------------------------------------------ u32 arithmetic --

\* a + b overflows the word
add_overflows(a, b) == a + b > U32_MAX
\* a + b in a build without overflow checks
wrapping_add(a, b) == (a + b) % (U32_MAX + 1)
\* a - b overflows the word
sub_overflows(a, b) == a < b
\* a - b in a build without overflow checks
wrapping_sub(a, b) == (a - b + U32_MAX + 1) % (U32_MAX + 1)
\* u32::checked_sub
checked_sub(a, b) == IF a >= b THEN Some(a - b) ELSE None
\* Option::unwrap_or
unwrap_or(o, d) == IF o = None THEN d ELSE o[1]

\* ------------------------------------------------------ RotaryEncoder ---

Rotations == {"None", "Clockwise", "CounterClockwise"}
PinReads == {"high", "low", "err"}

\* update without the latch: the direction is emitted by the call that
\* samples it
encoder_update_unlatched(sia, sib, current) ==
    IF sia = "high"
    THEN [rotation |-> IF sib = "high" THEN "CounterClockwise" ELSE "Clockwise",
          current |-> "None"]
    ELSE [rotation |-> "None", current |-> "None"]

\* RotaryEncoder::update with both pins read: the rotation returned and the
\* new latch
encoder_update(sia, sib, current) ==
    IF sia = "high" /\ current = "None"
    THEN [rotation |-> "None",
          current |-> IF sib = "high" THEN "CounterClockwise" ELSE "Clockwise"]
    ELSE IF sia # "high"
    THEN [rotation |-> current, current |-> "None"]
    ELSE [rotation |-> "None", current |-> current]

\* ------------------------------------------------------- StepperMotor ---

\* pulses written low first, high last
PulsesInverted(steps) ==
    [i \in 1..(2 * steps) |-> IF i % 2 = 1 THEN "step_low" ELSE "step_high"]

\* the step-line writes of the for loop of rotate
Pulses(steps) ==
    [i \in 1..(2 * steps) |-> IF i % 2 = 1 THEN "step_high" ELSE "step_low"]

\* rotate without the disable() after the last pulse
rotate_plan_no_disable(dir_write, steps, was_enabled) ==
    <<dir_write>>
    \o (IF was_enabled THEN <<>> ELSE <<"enable_low">>)
    \o Pulses(steps)

\* every pin write of rotate_clockwise / rotate_counter_clockwise, in order,
\* when none fails
rotate_plan(dir_write, steps, was_enabled) ==
    <<dir_write>>
    \o (IF was_enabled THEN <<>> ELSE <<"enable_low">>)
    \o Pulses(steps)
    \o (IF was_enabled THEN <<>> ELSE <<"enable_high">>)

\* every failed write reported as a failure of the step line
write_error_step(w) == "Motor_Step"

\* the error of a failed write, by the line written
write_error(w) ==
    IF w \in {"dir_high", "dir_low"} THEN "Motor_Dir"
    ELSE IF w \in {"enable_low", "enable_high"} THEN "Motor_Enable"
    ELSE "Motor_Step"

\* is_enabled after the writes done: enable() sets it when its write
\* succeeds, disable() clears it when its write succeeds
enabled_after(was_enabled, done) ==
    LET en == {i \in 1..Len(done) : done[i] \in {"enable_low", "enable_high"}}
        last == CHOOSE i \in en : \A j \in en : j <= i
    IN IF en = {} THEN was_enabled ELSE done[last] = "enable_low"

\* rotate_clockwise / rotate_counter_clockwise: the fail-th write fails
\* (0, or an index past the plan: none does).  writes are the writes
\* attempted, the failing one last.
rotate(dir_write, steps, was_enabled, fail) ==
    LET plan == rotate_plan(dir_write, steps, was_enabled)
        failed == fail \in 1..Len(plan)
        done == IF failed THEN SubSeq(plan, 1, fail - 1) ELSE plan
    IN [result |-> IF failed THEN write_error(plan[fail]) ELSE "Ok",
        writes |-> IF failed THEN SubSeq(plan, 1, fail) ELSE plan,
        is_enabled |-> enabled_after(was_enabled, done)]

\* main.rs: const MOTOR_MODE: Mode = Mode::QuarterStep;
MOTOR_MODE == "QuarterStep"

Modes == {"FullStep", "HalfStep", "QuarterStep", "EighthStep", "SixteenthStep"}

\* set_mode: the states (m1, m2, m3) passed to write_mode
mode_table(m) ==
    IF m = "FullStep" THEN <<FALSE, FALSE, FALSE>>
    ELSE IF m = "HalfStep" THEN <<TRUE, FALSE, FALSE>>
    ELSE IF m = "QuarterStep" THEN <<FALSE, TRUE, FALSE>>
    ELSE IF m = "EighthStep" THEN <<TRUE, TRUE, TRUE>>
    ELSE <<TRUE, TRUE, TRUE>>

\* the level a mode line is written to
line_level(state) == IF state THEN "high" ELSE "low"

\* the failing write of a set_mode: none, or the write of m1, m2 or m3
ModeFails == 0..3

\* write_mode: m1, m2, m3 are written in this order up to the first write
\* that fails (fail; 0: none does); a line that was not written keeps its
\* level
write_mode(states, lines, fail) ==
    [lines |-> [i \in 1..3 |-> IF fail = 0 \/ i < fail
                               THEN line_level(states[i])
                               ELSE lines[i]],
     result |-> IF fail = 0 THEN "Ok"
                ELSE IF fail = 1 THEN "Motor_M1"
                ELSE IF fail = 2 THEN "Motor_M2"
                ELSE "Motor_M3",
     writes |-> [i \in 1..(IF fail = 0 THEN 3 ELSE fail) |->
                    <<i, line_level(states[i])>>]]

\* StepperMotor::set_mode
set_mode(m, lines, fail) == write_mode(mode_table(m), lines, fail)

\* ---------------------------------------------------------------- Mill ---

Ops == {"boot", "new", "tick", "sia", "home", "limit", "idle", "motor_new",
        "set_mode"}

\* what a call has done so far: the fields it may have changed, its result
\* and its external effects
Base(op) ==
    [op |-> op, target |-> target_height, current |-> current_height,
     encoder |-> encoder_current, enabled |-> is_enabled, result |-> "Ok",
     writes |-> <<>>, frames |-> <<>>, limit |-> "none", rotation |-> "None",
     sia |-> "none", sib |-> "none"]

\* the frame update_screen passes to Screen::update
screen_frame(current, target, steps_per_mm) ==
    IF current # None
    THEN <<"Height", target \div steps_per_mm>>
    ELSE <<"Calibrating">>

\* a call that never refreshes the display
update_screen_skipped(o, screen_ok) == o

\* a refresh that passes its frame to the display twice
update_screen_twice(o, screen_ok) ==
    LET f == IF o.current # None
             THEN <<"Height", o.target \div motor_steps_per_mm>>
             ELSE <<"Calibrating">>
    IN [o EXCEPT !.frames = @ \o <<f, f>>,
                 !.result = IF screen_ok THEN "Ok" ELSE "ScreenUpdate"]

\* Mill::update_screen at the end of a call: the division panics on a zero
\* motor_steps_per_mm; Screen::update may fail
update_screen(o, screen_ok) ==
    IF o.current # None /\ motor_steps_per_mm = 0
    THEN [o EXCEPT !.result = "Panic"]
    ELSE [o EXCEPT
            !.frames = Append(@, screen_frame(o.current, o.target, motor_steps_per_mm)),
            !.result = IF screen_ok THEN "Ok" ELSE "ScreenUpdate"]

\* a u32 addition of the build: the sum, or a panic
plain_add(a, b) ==
    IF add_overflows(a, b)
    THEN IF overflow_checks THEN [panic |-> TRUE, value |-> a]
         ELSE [panic |-> FALSE, value |-> wrapping_add(a, b)]
    ELSE [panic |-> FALSE, value |-> a + b]

\* tick with >= in place of >: a move is issued at the target too
tick_branch_ge(current, target) ==
    IF current = None THEN "homing"
    ELSE IF current[1] >= target THEN "down"
    ELSE "up"

\* tick: which branch the heights select
tick_branch(current, target) ==
    IF current = None THEN "homing"
    ELSE IF current[1] > target THEN "down"
    ELSE IF current[1] < target THEN "up"
    ELSE "hold"

\* tick, moving down: current_height.checked_sub(steps).unwrap_or(0), replaced
\* into current_height
track_down(c, steps) == Some(unwrap_or(checked_sub(c, steps), 0))

\* tick, homing, giving up the jog whatever the sensor reads
homing_done_always(limit) == TRUE

\* tick, homing, with the polarity of the sensor inverted
homing_done_high(limit) == limit = "high"

\* tick, homing: limit_switch.is_low()
homing_done(limit) == limit = "low"

\* tick, homing: current_height.replace(0)
homed_height == Some(0)

\* the motor part of a call: the writes, the enable flag and the result of
\* one rotate
with_rotate(o, dir_write, fail) ==
    LET r == rotate(dir_write, motor_steps_per_tick, o.enabled, fail)
    IN [o EXCEPT !.writes = r.writes, !.enabled = r.is_enabled, !.result = r.result]

\* a homing step issued clockwise, away from the reference
homing_rotate_clockwise(o, fail) == with_rotate(o, "dir_high", fail)

\* tick, homing: self.motor.rotate_counter_clockwise(self.motor_steps_per_tick)
homing_rotate(o, fail) == with_rotate(o, "dir_low", fail)

\* Mill::tick
tick_outcome(motor_fail, limit, screen_ok) ==
    LET b == Base("tick")
        branch == tick_branch(current_height, target_height)
    IN
    IF branch = "down" THEN
        LET m == with_rotate(b, "dir_low", motor_fail)
        IN IF m.result # "Ok" THEN m
           ELSE [m EXCEPT !.current =
                    track_down(current_height[1], motor_steps_per_tick)]
    ELSE IF branch = "up" THEN
        LET m == with_rotate(b, "dir_high", motor_fail)
            sum == plain_add(current_height[1], motor_steps_per_tick)
        IN IF m.result # "Ok" THEN m
           ELSE IF sum.panic THEN [m EXCEPT !.result = "Panic"]
           ELSE [m EXCEPT !.current = Some(sum.value)]
    ELSE IF branch = "homing" THEN
        LET m == homing_rotate(b, motor_fail)
        IN IF m.result # "Ok" THEN m
           ELSE IF limit = "err"
           THEN [m EXCEPT !.limit = limit, !.result = "LimitSwitch"]
           ELSE IF homing_done(limit)
           THEN update_screen([m EXCEPT !.limit = limit, !.current = homed_height],
                              screen_ok)
           ELSE [m EXCEPT !.limit = limit]
    ELSE b

\* handle_sia_interrupt, Rotation::Clockwise: the clamp after the addition
clamp_to_max(t, max) == IF t > max THEN max ELSE t

\* handle_sia_interrupt, Rotation::CounterClockwise
sia_counter_clockwise(t, steps_per_mm) == unwrap_or(checked_sub(t, steps_per_mm), 0)

\* Mill::handle_sia_interrupt
sia_outcome(sia, sib, screen_ok) ==
    LET b == Base("sia")
        e == encoder_update(sia, sib, encoder_current)
        d == [b EXCEPT !.encoder = e.current, !.rotation = e.rotation,
                       !.sia = sia, !.sib = sib]
        sum == plain_add(target_height, motor_steps_per_mm)
    IN
    IF sia = "err" THEN [b EXCEPT !.result = "Encoder_Sia", !.sia = sia]
    ELSE IF sib = "err"
    THEN [b EXCEPT !.result = "Encoder_Sib", !.sia = sia, !.sib = sib]
    ELSE IF e.rotation = "Clockwise" THEN
        IF sum.panic THEN [d EXCEPT !.result = "Panic"]
        ELSE update_screen([d EXCEPT !.target = clamp_to_max(sum.value, max_height)],
                           screen_ok)
    ELSE IF e.rotation = "CounterClockwise" THEN
        update_screen([d EXCEPT !.target =
                          sia_counter_clockwise(target_height, motor_steps_per_mm)],
                      screen_ok)
    ELSE update_screen(d, screen_ok)

\* handle_home_switch_interrupt without the reset
home_height_kept(current) == current

\* handle_home_switch_interrupt: self.current_height = None
home_height(current) == None

\* Mill::handle_home_switch_interrupt
home_outcome(screen_ok) ==
    update_screen([Base("home") EXCEPT !.current = home_height(current_height)],
                  screen_ok)

\* handle_limit_switch_interrupt forgetting the height instead of zeroing it
limit_height_lost(current) == None

\* handle_limit_switch_interrupt: self.current_height = Some(0)
limit_height(current) == Some(0)

\* handle_limit_switch_interrupt moving the target up
limit_target_raised(target) == target + 1

\* handle_limit_switch_interrupt without the reset of the target
limit_target_kept(target) == target

\* handle_limit_switch_interrupt: self.target_height = 0
limit_target(target) == 0

\* Mill::handle_limit_switch_interrupt
limit_outcome(screen_ok) ==
    update_screen([Base("limit") EXCEPT
                      !.current = limit_height(current_height),
                      !.target = limit_target(target_height)],
                  screen_ok)

\* a call's outcome becomes the state; a panic never returns
Apply(o) ==
    /\ prev_op' = last_op
    /\ last_op' = o.op
    /\ target_height' = o.target
    /\ current_height' = o.current
    /\ encoder_current' = o.encoder
    /\ is_enabled' = o.enabled
    /\ result' = o.result
    /\ writes' = o.writes
    /\ frames' = o.frames
    /\ limit_read' = o.limit
    /\ rotation' = o.rotation
    /\ sia_read' = o.sia
    /\ sib_read' = o.sib
    /\ display' = IF o.frames = <<>> THEN display ELSE o.frames[Len(o.frames)]
    /\ UNCHANGED <<config_vars, motor_vars>>

\* the failing write of a call's rotate: none, or any write of the longest plan
MotorFails == 0..(3 + 2 * MaxStepsPerTick)

\* --------------------------------------- the library, called in any order

\* Mill::new has returned Ok: the state of lib.rs:106-121
NewMill ==
    /\ target_height = 0
    /\ current_height = None
    /\ encoder_current = "None"
    /\ is_enabled = FALSE
    /\ display = <<"Calibrating">>
    /\ last_op = "new"
    /\ prev_op = "boot"
    /\ result = "Ok"
    /\ writes = <<>>
    /\ frames = <<<<"Calibrating">>>>
    /\ limit_read = "none"
    /\ rotation = "None"
    /\ sia_read = "none"
    /\ sib_read = "none"
    /\ panicked = FALSE
    /\ mode = MOTOR_MODE
    /\ mode_lines = set_mode(MOTOR_MODE, <<"low", "low", "low">>, 0).lines

\* the firmware is not part of the library specifications
NoFirmware ==
    /\ mill_installed = TRUE
    /\ primask = FALSE
    /\ pending = {}
    /\ main_pc = "loop"
    /\ isr = "none"
    /\ last_sia = 0
    /\ elapsed = 0

\* small configurations
Init ==
    /\ max_height \in 0..MaxHeight
    /\ motor_steps_per_mm \in 1..MaxStepsPerMm
    /\ motor_steps_per_tick \in 1..MaxStepsPerTick
    /\ overflow_checks \in BOOLEAN
    /\ NewMill
    /\ NoFirmware

\* configurations whose travel ends at the top of the u32 range
InitTop ==
    /\ max_height \in (U32_MAX - 1)..U32_MAX
    /\ motor_steps_per_mm = (U32_MAX + 1) \div 4
    /\ motor_steps_per_tick = (U32_MAX + 1) \div 8
    /\ overflow_checks \in BOOLEAN
    /\ NewMill
    /\ NoFirmware

\* the outcomes of a call under every answer of the pins and the display
TickOutcomes ==
    {tick_outcome(motor_fail, limit, screen_ok) :
        motor_fail \in MotorFails, limit \in PinReads, screen_ok \in BOOLEAN}

SiaOutcomes ==
    {sia_outcome(sia, sib, screen_ok) :
        sia \in PinReads, sib \in PinReads, screen_ok \in BOOLEAN}

HomeOutcomes == {home_outcome(screen_ok) : screen_ok \in BOOLEAN}

LimitOutcomes == {limit_outcome(screen_ok) : screen_ok \in BOOLEAN}

\* a library call returns (an Err too) or panics
Call(o) == Apply(o) /\ panicked' = (o.result = "Panic")

Tick ==
    /\ ~panicked
    /\ \E o \in TickOutcomes : Call(o)
    /\ UNCHANGED firmware_vars

HandleSiaInterrupt ==
    /\ ~panicked
    /\ \E o \in SiaOutcomes : Call(o)
    /\ UNCHANGED firmware_vars

HandleHomeSwitchInterrupt ==
    /\ ~panicked
    /\ \E o \in HomeOutcomes : Call(o)
    /\ UNCHANGED firmware_vars

HandleLimitSwitchInterrupt ==
    /\ ~panicked
    /\ \E o \in LimitOutcomes : Call(o)
    /\ UNCHANGED firmware_vars

Next ==
    \/ Tick
    \/ HandleSiaInterrupt
    \/ HandleHomeSwitchInterrupt
    \/ HandleLimitSwitchInterrupt

Spec == Init /\ [][Next]_vars

SpecTop == InitTop /\ [][Next]_vars

\* Mill::new validates nothing: a configuration with motor_steps_per_mm = 0
\* is constructed like any other
InitZero ==
    /\ max_height \in 0..MaxHeight
    /\ motor_steps_per_mm = 0
    /\ motor_steps_per_tick \in 1..MaxStepsPerTick
    /\ overflow_checks \in BOOLEAN
    /\ NewMill
    /\ NoFirmware

SpecZero == InitZero /\ [][Next]_vars

\* ------------------------------------- the motor driver before the Mill --

\* the pins handed to StepperMotor::new, at any level; no Mill yet
InitMotor ==
    /\ max_height = 0
    /\ motor_steps_per_mm = 1
    /\ motor_steps_per_tick = 1
    /\ overflow_checks = FALSE
    /\ target_height = 0
    /\ current_height = None
    /\ encoder_current = "None"
    /\ is_enabled = FALSE
    /\ display = <<>>
    /\ last_op = "boot"
    /\ prev_op = "boot"
    /\ result = "Ok"
    /\ writes = <<>>
    /\ frames = <<>>
    /\ limit_read = "none"
    /\ rotation = "None"
    /\ sia_read = "none"
    /\ sib_read = "none"
    /\ panicked = FALSE
    /\ mode = "none"
    /\ mode_lines \in [1..3 -> {"low", "high"}]
    /\ NoFirmware

\* what a call on the motor leaves in the log
MotorCall(op, res, w) ==
    /\ prev_op' = last_op
    /\ last_op' = op
    /\ result' = res
    /\ writes' = w
    /\ UNCHANGED <<frames, limit_read, rotation, sia_read, sib_read>>

\* StepperMotor::new: set_mode(config.mode)?, then disable()?
NewMotor ==
    /\ last_op = "boot"
    /\ \E m \in Modes, fail \in ModeFails, disable_ok \in BOOLEAN :
          LET r == set_mode(m, mode_lines, fail)
          IN /\ mode' = m
             /\ mode_lines' = r.lines
             /\ is_enabled' = FALSE
             /\ IF r.result # "Ok" THEN MotorCall("motor_new", r.result, r.writes)
                ELSE MotorCall("motor_new",
                               IF disable_ok THEN "Ok" ELSE "Motor_Enable",
                               Append(r.writes, "enable_high"))
    /\ UNCHANGED <<config_vars, target_height, current_height, encoder_current,
                   display, firmware_vars, panicked>>

\* StepperMotor::set_mode on a constructed motor
SetMode ==
    /\ \/ last_op = "motor_new" /\ result = "Ok"
       \/ last_op = "set_mode"
    /\ \E m \in Modes, fail \in ModeFails :
          LET r == set_mode(m, mode_lines, fail)
          IN /\ mode' = m
             /\ mode_lines' = r.lines
             /\ MotorCall("set_mode", r.result, r.writes)
    /\ UNCHANGED <<config_vars, mill_vars, firmware_vars, panicked>>

NextMotor ==
    \/ NewMotor
    \/ SetMode

SpecMotor == InitMotor /\ [][NextMotor]_vars

\* ------------------------------------------------------- the firmware ---

Lines == {"EXTI0", "EXTI1", "EXTI2"}

\* the values timer.now().elapsed() is read at: around the cooldown threshold
TimerReadings == {0, SIA_ROTATION_DELAY - 1, SIA_ROTATION_DELAY}

\* a body run without interrupt_free: PRIMASK as it was
interrupt_free_missing(p) == p

\* PRIMASK inside cortex_m::interrupt::free
interrupt_free(p) == TRUE

\* an enabled interrupt is pending: it preempts the foreground
Dispatchable == ~primask /\ isr = "none" /\ pending # {}

\* main loop with the comparison inverted
in_cooldown_inverted(d) == d > SIA_ROTATION_DELAY

\* main loop: elapsed - last_sia < SIA_ROTATION_DELAY
in_cooldown(d) == d < SIA_ROTATION_DELAY

\* a result that is looked at by nobody: the fault is returned and the
\* firmware goes on
unwrap_ignored(o) == o

\* the unwrap() of a call's result: an Err panics
unwrap(o) == IF o.result = "Ok" THEN o ELSE [o EXCEPT !.result = "Panic"]

\* a foreground iteration, or a handler, that returns without calling Mill
Idle(res) ==
    [Base("idle") EXCEPT !.result = res]

\* main.rs:106-110: the three lines are unmasked, MILL is still None.  The
\* configuration is the one of main.rs:151-153, MM_STEPS and the 48 mm of
\* travel scaled down to MaxStepsPerMm and MaxMm.
InitFirmware ==
    /\ motor_steps_per_mm = MaxStepsPerMm
    /\ max_height = MaxMm * MaxStepsPerMm
    /\ motor_steps_per_tick = STEPS_PER_LOOP
    /\ overflow_checks \in BOOLEAN
    /\ NewMill
    /\ mill_installed = FALSE
    /\ primask = FALSE
    /\ pending = {}
    /\ main_pc = "boot"
    /\ isr = "none"
    /\ last_sia = 0
    /\ elapsed = 0

\* a switch or encoder edge sets its line's pending bit
RaiseEdge ==
    /\ ~panicked
    /\ \E x \in Lines \ pending : pending' = pending \cup {x}
    /\ UNCHANGED <<config_vars, motor_vars, mill_vars, call_vars, panicked, mill_installed,
                   primask, main_pc, isr, last_sia, elapsed>>

\* the cycle counter runs
TimerRuns ==
    /\ ~panicked
    /\ \E e \in TimerReadings \ {elapsed} : elapsed' = e
    /\ UNCHANGED <<config_vars, motor_vars, mill_vars, call_vars, panicked, mill_installed,
                   primask, pending, main_pc, isr, last_sia>>

\* main.rs:112-166: Mill::new and the installation in MILL
Boot ==
    /\ ~panicked /\ main_pc = "boot" /\ ~Dispatchable
    /\ mill_installed' = TRUE
    /\ main_pc' = "loop"
    /\ UNCHANGED <<config_vars, motor_vars, mill_vars, call_vars, panicked, primask, pending,
                   isr, last_sia, elapsed>>

\* main.rs:169: the foreground enters interrupt_free
MainEnter ==
    /\ ~panicked /\ main_pc = "loop" /\ isr = "none" /\ ~Dispatchable
    /\ primask' = interrupt_free(primask)
    /\ main_pc' = "cs"
    /\ UNCHANGED <<config_vars, motor_vars, mill_vars, call_vars, panicked, mill_installed,
                   pending, isr, last_sia, elapsed>>

\* main.rs:170-180: the body of the foreground iteration
main_outcomes ==
    IF sub_overflows(elapsed, last_sia) /\ overflow_checks
    THEN {Idle("Panic")}
    ELSE IF in_cooldown(wrapping_sub(elapsed, last_sia))
    THEN {Idle("Ok")}
    ELSE {unwrap(o) : o \in TickOutcomes}

MainBody ==
    /\ ~panicked /\ main_pc = "cs" /\ isr = "none"
    /\ \E o \in main_outcomes : Call(o)
    /\ primask' = (panicked' /\ primask)
    /\ main_pc' = IF panicked' THEN main_pc ELSE "loop"
    /\ UNCHANGED <<mill_installed, pending, isr, last_sia, elapsed>>

\* an interrupt is taken and its handler enters interrupt_free
IsrEnter ==
    /\ ~panicked /\ Dispatchable
    /\ \E x \in pending : isr' = x
    /\ primask' = interrupt_free(primask)
    /\ UNCHANGED <<config_vars, motor_vars, mill_vars, call_vars, panicked, mill_installed,
                   pending, main_pc, last_sia, elapsed>>

\* the Mill call of each handler
isr_outcomes(x) ==
    IF x = "EXTI0" THEN {unwrap(o) : o \in SiaOutcomes}
    ELSE IF x = "EXTI1" THEN {unwrap(o) : o \in HomeOutcomes}
    ELSE {unwrap(o) : o \in LimitOutcomes}

\* main.rs:185-233: the body of EXTI0, EXTI1, EXTI2.  With MILL still None,
\* or the line's pending bit clear, the handler returns at once; the bit is
\* cleared after the Mill call has returned Ok.
IsrBody ==
    /\ ~panicked /\ isr # "none"
    /\ IF mill_installed /\ isr \in pending
       THEN /\ \E o \in isr_outcomes(isr) : Call(o)
            /\ last_sia' = IF isr = "EXTI0" THEN elapsed ELSE last_sia
            /\ pending' = IF panicked' THEN pending ELSE pending \ {isr}
       ELSE /\ UNCHANGED <<config_vars, motor_vars, mill_vars, call_vars, panicked, last_sia,
                           pending>>
    /\ primask' = (panicked' /\ primask)
    /\ isr' = IF panicked' THEN isr ELSE "none"
    /\ UNCHANGED <<mill_installed, main_pc, elapsed>>

NextFirmware ==
    \/ RaiseEdge
    \/ TimerRuns
    \/ Boot
    \/ MainEnter
    \/ MainBody
    \/ IsrEnter
    \/ IsrBody

SpecFirmware == InitFirmware /\ [][NextFirmware]_vars

\* ------------------------------------------------------------ claims ---

Dist(a, b) == IF a >= b THEN a - b ELSE b - a

Min(a, b) == IF a <= b THEN a ELSE b

\* ceil(|c - t| / steps)
TicksLeft(c, t, steps) == (Dist(c, t) + steps - 1) \div steps

\* the effect of one decoded rotation on the target, in unbounded integers
TargetAfter(t, rot, steps_per_mm, max) ==
    IF rot = "Clockwise" THEN Min(t + steps_per_mm, max)
    ELSE IF rot = "CounterClockwise" THEN (IF t >= steps_per_mm THEN t - steps_per_mm ELSE 0)
    ELSE t

\* the target stays within [0, max_height] (this part holds in every
\* specification of the module)
TargetInRange == target_height \in 0..max_height

\* C1: after every step target_height is within [0, max_height], and the
\* addition of the encoder handler's Clockwise arm never overflows the word.
C1_TargetInRangeNeverWraps ==
    [][/\ target_height' \in 0..max_height'
       /\ (last_op' = "sia" /\ rotation' = "Clockwise")
            => ~add_overflows(target_height, motor_steps_per_mm)]_vars

\* C2: a tick that tracks (calibrated, off target, no fault) moves
\* current_height strictly toward the target by at most steps_per_tick, and
\* leaves exactly one tick less of the ceil(|c - t| / steps_per_tick) to go.
C2_TrackingConverges ==
    [][(/\ last_op' = "tick" /\ result' = "Ok"
        /\ current_height # None /\ current_height[1] # target_height)
       => /\ current_height' # None
          /\ Dist(current_height'[1], target_height) < Dist(current_height[1], target_height)
          /\ Dist(current_height'[1], current_height[1]) <= motor_steps_per_tick
          /\ TicksLeft(current_height'[1], target_height, motor_steps_per_tick)
               = TicksLeft(current_height[1], target_height, motor_steps_per_tick) - 1]_vars

\* C3: an uncalibrated controller becomes calibrated only at Some(0) and only
\* when the sensor has reported triggered (tick sampled it low, or its
\* interrupt was handled); and a tick of an uncalibrated controller that
\* samples the sensor triggered yields Some(0).
C3_CalibratedOnlyOnSensor ==
    [][/\ (current_height = None /\ current_height' # None)
            => /\ current_height' = Some(0)
               /\ \/ last_op' = "tick" /\ limit_read' = "low"
                  \/ last_op' = "limit"
       /\ (current_height = None /\ last_op' = "tick" /\ limit_read' = "low")
            => current_height' = Some(0)
       /\ (current_height = None /\ last_op' = "tick" /\ limit_read' # "low")
            => current_height' = None]_vars

C3_Homed ==
    /\ prev_op = "tick" /\ last_op = "tick"
    /\ limit_read = "low" /\ current_height = Some(0)

\* C4: a home-switch interrupt leaves current_height = None whatever it was,
\* and the tick that follows it is a homing step: a counter-clockwise train
\* followed by a sample of the sensor, never a tracking move.
C4_HomeForcesHoming ==
    [][/\ last_op' = "home" => current_height' = None
       /\ (last_op = "home" /\ last_op' = "tick")
            => /\ writes' # <<>> /\ writes'[1] = "dir_low"
               /\ result' = "Ok" => limit_read' \in {"low", "high"}
               /\ \/ current_height' = None
                  \/ limit_read' = "low" /\ current_height' = Some(0)]_vars

C4_HomingAfterHome ==
    /\ prev_op = "home" /\ last_op = "tick"
    /\ limit_read = "high" /\ current_height = None /\ result = "Ok"

\* a step that ends the body of the foreground iteration
MainBodyStep == main_pc = "cs" /\ (main_pc' = "loop" \/ panicked')

\* a step that ends the body of EXTI0 with MILL installed and the line pending
Exti0BodyStep ==
    /\ isr = "EXTI0" /\ mill_installed /\ "EXTI0" \in pending
    /\ (isr' = "none" \/ panicked')

\* C5: the body of the foreground iteration and the bodies of the three
\* handlers never overlap, each runs with interrupts masked, an interrupt is
\* taken only when no body is in progress, and target_height, current_height
\* and LAST_SIA_INTERRUPT change only in a step of the one body in progress.
C5_MutualExclusion ==
    [][/\ ~(main_pc' = "cs" /\ isr' # "none")
       /\ (main_pc' = "cs" \/ isr' # "none") => primask'
       /\ (isr' # isr /\ isr' # "none") => (main_pc # "cs" /\ isr = "none")
       /\ (<<target_height, current_height, last_sia>>'
             # <<target_height, current_height, last_sia>>)
            => /\ primask
               /\ (main_pc = "cs") # (isr # "none")]_vars

C5_EdgeRaisedDuringBody ==
    /\ main_pc = "cs" /\ isr = "none" /\ primask
    /\ pending = {"EXTI0", "EXTI1", "EXTI2"}
    /\ current_height # None

\* C6: every handled encoder interrupt restarts the cooldown and applies its
\* rotation to target_height (clamped), whatever the cooldown; a foreground
\* iteration whose reading is within SIA_ROTATION_DELAY of the last encoder
\* interrupt calls no tick: it writes no motor line and leaves the heights.
C6_CooldownCoalesces ==
    [][/\ Exti0BodyStep
            => /\ last_sia' = elapsed
               /\ target_height' = TargetAfter(target_height, rotation',
                                               motor_steps_per_mm, max_height)
       /\ (MainBodyStep /\ wrapping_sub(elapsed, last_sia) < SIA_ROTATION_DELAY)
            => /\ last_op' = "idle" /\ writes' = <<>> /\ frames' = <<>>
               /\ UNCHANGED <<target_height, current_height>>]_vars

C6_SkippedInCooldown ==
    /\ prev_op = "sia" /\ last_op = "idle" /\ result = "Ok"
    /\ current_height # None /\ target_height = max_height
    /\ current_height[1] # target_height

\* C7: a tick at the target (current_height = Some(h), target_height = h)
\* writes no motor line, passes no frame to the display and leaves
\* current_height, target_height and the enable flag as they were.
C7_TickAtTargetIsIdle ==
    [][(/\ last_op' = "tick"
        /\ current_height # None /\ current_height[1] = target_height)
       => /\ writes' = <<>> /\ frames' = <<>> /\ result' = "Ok"
          /\ UNCHANGED <<target_height, current_height, is_enabled, display,
                         encoder_current>>]_vars

C7_HeldAtTarget ==
    /\ last_op = "tick" /\ writes = <<>>
    /\ current_height # None /\ current_height[1] = target_height
    /\ target_height > 0

\* C8: the encoder handler, once both phases are read, sets target_height to
\* min(target_height + steps_per_mm, max_height) on Clockwise, to
\* max(target_height - steps_per_mm, 0) on CounterClockwise, and leaves it
\* on None.
C8_EncoderEffect ==
    [][(last_op' = "sia" /\ result' \notin {"Encoder_Sia", "Encoder_Sib"})
       => target_height' = TargetAfter(target_height, rotation',
                                       motor_steps_per_mm, max_height)]_vars

\* C9 as stated: current_height is None initially, becomes Some only by
\* homing completing inside tick, and becomes None again only by a
\* home-switch interrupt.
C9_SomeOnlyByHoming ==
    /\ current_height = None
    /\ [][/\ (current_height = None /\ current_height' # None)
               => last_op' = "tick" /\ limit_read' = "low"
          /\ (current_height # None /\ current_height' = None)
               => last_op' = "home"]_vars

\* C9 amended: current_height is None initially, becomes Some only by homing
\* completing inside tick or by a limit-switch interrupt, and becomes None
\* again only by a home-switch interrupt.
C9_SomeOnlyByHomingOrLimit ==
    /\ current_height = None
    /\ [][/\ (current_height = None /\ current_height' # None)
               => \/ last_op' = "tick" /\ limit_read' = "low"
                  \/ last_op' = "limit"
          /\ (current_height # None /\ current_height' = None)
               => last_op' = "home"]_vars

C9_CalibratedByLimit ==
    /\ prev_op = "home" /\ last_op = "limit"
    /\ current_height = Some(0)

\* C10: a limit-switch interrupt leaves current_height = Some(0) and
\* target_height = 0 whatever they were and passes the frame Height(0) to the
\* display, once; the tick that follows it writes no motor line.
C10_LimitResets ==
    [][/\ last_op' = "limit"
            => /\ current_height' = Some(0) /\ target_height' = 0
               /\ frames' = <<<<"Height", 0>>>>
       /\ (last_op = "limit" /\ last_op' = "tick")
            => writes' = <<>> /\ current_height' = Some(0)]_vars

C10_IdleAfterLimit ==
    /\ prev_op = "limit" /\ last_op = "tick"
    /\ writes = <<>> /\ current_height = Some(0) /\ target_height = 0

MotorErrors == {"Motor_Dir", "Motor_Enable", "Motor_Step"}

EnableWrites == {"enable_low", "enable_high"}

StepWrites == {"step_high", "step_low"}

\* the pulses of a train that were completed: the step-line writes back to
\* low that succeeded
CompletedPulses(w, res) ==
    LET n == IF res \in MotorErrors THEN Len(w) - 1 ELSE Len(w)
    IN Cardinality({i \in 1..n : w[i] = "step_low"})

\* C11: a rotate that completes without a write failure leaves is_enabled as
\* it found it: entered enabled it writes no enable line; entered disabled it
\* writes enable (low) before the first pulse and disable (high) after the
\* last, with the steps pulses between them.
C11_EnableRestored ==
    [][(last_op' = "tick" /\ writes' # <<>> /\ result' \notin MotorErrors)
       => /\ is_enabled' = is_enabled
          /\ is_enabled
               => /\ Len(writes') = 1 + 2 * motor_steps_per_tick
                  /\ \A i \in 1..Len(writes') : writes'[i] \notin EnableWrites
          /\ ~is_enabled
               => /\ Len(writes') = 3 + 2 * motor_steps_per_tick
                  /\ writes'[2] = "enable_low"
                  /\ writes'[Len(writes')] = "enable_high"
                  /\ \A i \in 3..(Len(writes') - 1) : writes'[i] \in StepWrites]_vars

C11_EnabledOnEntryAndReturn ==
    /\ last_op = "tick" /\ result = "Ok" /\ is_enabled
    /\ Len(writes) = 1 + 2 * motor_steps_per_tick

\* C12 as stated: a failed write is the last write of the call, the error
\* names its line, and fewer than steps pulses were completed.
C12_AbortBeforeLastPulse ==
    [][(last_op' = "tick" /\ result' \in MotorErrors)
       => /\ writes' # <<>>
          /\ result' = "Motor_Dir" <=> writes'[Len(writes')] \in {"dir_low", "dir_high"}
          /\ result' = "Motor_Enable" <=> writes'[Len(writes')] \in EnableWrites
          /\ result' = "Motor_Step" <=> writes'[Len(writes')] \in StepWrites
          /\ CompletedPulses(writes', result') < motor_steps_per_tick]_vars

\* C12 amended: a failed write is the last write of the call and the error
\* names its line; fewer than steps pulses were completed unless the failed
\* write is the disable after the last pulse, and then all steps were.
C12_AbortOnWriteFailure ==
    [][(last_op' = "tick" /\ result' \in MotorErrors)
       => /\ writes' # <<>>
          /\ result' = "Motor_Dir" <=> writes'[Len(writes')] \in {"dir_low", "dir_high"}
          /\ result' = "Motor_Enable" <=> writes'[Len(writes')] \in EnableWrites
          /\ result' = "Motor_Step" <=> writes'[Len(writes')] \in StepWrites
          /\ IF writes'[Len(writes')] = "enable_high"
             THEN CompletedPulses(writes', result') = motor_steps_per_tick
             ELSE CompletedPulses(writes', result') < motor_steps_per_tick
          /\ UNCHANGED <<target_height, current_height, display>>]_vars

C12_DisableFailed ==
    /\ last_op = "tick" /\ result = "Motor_Enable"
    /\ writes # <<>> /\ writes[Len(writes)] = "enable_high"
    /\ CompletedPulses(writes, result) = motor_steps_per_tick

\* C13: a controller with steps_per_mm = 0 is never constructed, so no call
\* on a constructed controller reaches the division target_height /
\* steps_per_mm of update_screen with a zero divisor (a panic).
C13_ZeroStepsRejected ==
    motor_steps_per_mm = 0 => result # "Panic"

\* C14: after construction and after every call the most recent frame passed
\* to the display is Calibrating if current_height is None and
\* Height(target_height / steps_per_mm) otherwise.
C14_DisplayConsistent ==
    display = IF current_height = None
              THEN <<"Calibrating">>
              ELSE <<"Height", target_height \div motor_steps_per_mm>>

C14_HeightShown ==
    /\ last_op = "sia" /\ rotation = "Clockwise"
    /\ current_height # None /\ target_height > 0
    /\ display = <<"Height", 1>>

\* C15: a home-switch interrupt resets target_height to 0, and target_height
\* stays 0 until the next encoder event.
C15_HomeResetsTarget ==
    [][/\ last_op' = "home" => target_height' = 0
       /\ (last_op = "home" /\ last_op' # "sia") => target_height' = 0]_vars

\* C16: a tick or an interrupt handler passes at most one frame to the
\* display, on every path.
C16_AtMostOneFrame == Len(frames) <= 1

C16_TickRefreshedOnce ==
    /\ last_op = "tick" /\ limit_read = "low"
    /\ Len(frames) = 1 /\ current_height = Some(0)

\* the direction line a tracking tick selects
TrackingDir(c, t) == IF c < t THEN "dir_high" ELSE "dir_low"

\* C17: a tick of a calibrated controller off its target writes the direction
\* line clockwise when below the target and counter-clockwise when above, and
\* changes current_height by exactly the pulses it issued, signed by the
\* direction.
C17_TrackingAccountsPulses ==
    [][(/\ last_op' = "tick"
        /\ current_height # None /\ current_height[1] # target_height)
       => /\ writes' # <<>>
          /\ writes'[1] = TrackingDir(current_height[1], target_height)
          /\ current_height' # None
          /\ current_height'[1] =
                IF current_height[1] < target_height
                THEN current_height[1] + CompletedPulses(writes', result')
                ELSE current_height[1] - CompletedPulses(writes', result')]_vars

\* the same for the ticks that return Ok
C17_OkTicksAccountPulses ==
    [][(/\ last_op' = "tick" /\ result' = "Ok"
        /\ current_height # None /\ current_height[1] # target_height)
       => /\ writes'[1] = TrackingDir(current_height[1], target_height)
          /\ current_height' # None
          /\ current_height'[1] =
                IF current_height[1] < target_height
                THEN current_height[1] + CompletedPulses(writes', result')
                ELSE current_height[1] - CompletedPulses(writes', result')]_vars

\* C18: a tick of an uncalibrated controller first issues one homing train
\* (direction counter-clockwise, steps_per_tick pulses) and samples the sensor
\* only after the whole train; a sample that reports triggered sets
\* current_height = Some(0) and passes one frame to the display, any other
\* outcome leaves current_height = None and the display untouched; and
\* target_height is unchanged.
C18_HomingStep ==
    [][(last_op' = "tick" /\ current_height = None)
       => /\ writes' # <<>> /\ writes'[1] = "dir_low"
          /\ target_height' = target_height
          /\ result' = "Ok" => limit_read' \in {"low", "high"}
          /\ limit_read' # "none"
               => /\ CompletedPulses(writes', result') = motor_steps_per_tick
                  /\ result' \notin MotorErrors
          /\ IF limit_read' = "low"
             THEN /\ current_height' = Some(0)
                  /\ frames' = <<<<"Height", target_height \div motor_steps_per_mm>>>>
             ELSE /\ current_height' = None
                  /\ frames' = <<>> /\ display' = display]_vars

C18_StillHoming ==
    /\ prev_op = "tick" /\ last_op = "tick" /\ result = "Ok"
    /\ limit_read = "high" /\ current_height = None
    /\ target_height > 0 /\ frames = <<>>
    /\ CompletedPulses(writes, result) = motor_steps_per_tick

\* a step in which RotaryEncoder::update read both phases
EncoderUpdated == last_op' = "sia" /\ sia_read' \in {"high", "low"}
                                   /\ sib_read' \in {"high", "low"}

\* C19: update returns a rotation only when phase A reads low and the latch
\* holds that rotation, and then clears the latch; a call with A high and the
\* latch empty latches Clockwise on B low and CounterClockwise on B high and
\* returns None; a call with A high and the latch set returns None and keeps
\* the latch; a call with A low and the latch empty returns None; nothing
\* else changes the latch.
C19_EdgeLatched ==
    [][/\ EncoderUpdated
            => /\ rotation' # "None"
                    => /\ sia_read' = "low"
                       /\ encoder_current = rotation'
                       /\ encoder_current' = "None"
               /\ (sia_read' = "high" /\ encoder_current = "None")
                    => /\ rotation' = "None"
                       /\ encoder_current' = IF sib_read' = "low"
                                             THEN "Clockwise"
                                             ELSE "CounterClockwise"
               /\ (sia_read' = "high" /\ encoder_current # "None")
                    => rotation' = "None" /\ encoder_current' = encoder_current
               /\ sia_read' = "low"
                    => rotation' = encoder_current /\ encoder_current' = "None"
       /\ ~EncoderUpdated => encoder_current' = encoder_current]_vars

C19_LatchKeptThenEmitted ==
    /\ prev_op = "sia" /\ last_op = "sia"
    /\ sia_read = "low" /\ sib_read = "high"
    /\ rotation = "Clockwise" /\ encoder_current = "None"

\* C20: every encoder interrupt restarts the window at the reading it takes;
\* a foreground iteration whose reading lies within SIA_ROTATION_DELAY cycles
\* after the latest encoder interrupt skips tick and changes nothing; a
\* foreground iteration whose reading lies SIA_ROTATION_DELAY cycles or more
\* after it calls tick.
C20_TickResumesAfterWindow ==
    [][/\ Exti0BodyStep => last_sia' = elapsed
       /\ (MainBodyStep /\ wrapping_sub(elapsed, last_sia) < SIA_ROTATION_DELAY)
            => /\ last_op' = "idle" /\ writes' = <<>>
               /\ UNCHANGED mill_vars
       /\ (MainBodyStep /\ wrapping_sub(elapsed, last_sia) >= SIA_ROTATION_DELAY)
            => last_op' = "tick"]_vars

DirWrites == {"dir_low", "dir_high"}

\* the positions of a call's step-line writes
StepIdx(w) == {i \in 1..Len(w) : w[i] \in StepWrites}

\* the last write of the step line that succeeded, "none" if none did
LastStepLevel(w, res) ==
    LET n == IF res \in MotorErrors THEN Len(w) - 1 ELSE Len(w)
        ok == {i \in 1..n : w[i] \in StepWrites}
    IN IF ok = {} THEN "none"
       ELSE w[CHOOSE i \in ok : \A j \in ok : j <= i]

\* the order of the writes of a train: the direction line first, the driver
\* enabled (on entry, or by the second write) before the first step-line
\* write, and step-line writes only from the first to the last of them
TrainOrdered(w, was_enabled) ==
    LET first == CHOOSE i \in StepIdx(w) : \A j \in StepIdx(w) : i <= j
        last == CHOOSE i \in StepIdx(w) : \A j \in StepIdx(w) : j <= i
    IN /\ w[1] \in DirWrites
       /\ \A i \in 2..Len(w) : w[i] \notin DirWrites
       /\ IF was_enabled
          THEN first = 2 /\ \A i \in 1..Len(w) : w[i] \notin EnableWrites
          ELSE first = 3 /\ w[2] = "enable_low"
       /\ \A i \in first..last : w[i] \in StepWrites

C22_FaultIsFatal ==
    /\ result = "Ok" /\ ~panicked
    /\ [][/\ ~panicked
          /\ result' \in {"Ok", "Panic"}
          /\ panicked' <=> result' = "Panic"
          /\ panicked' => primask' /\ (main_pc' = "cs" \/ isr' # "none")]_vars

C22_HaltedMidTrain ==
    /\ panicked /\ last_op = "tick" /\ result = "Panic"
    /\ Len(writes) = 3 /\ writes[3] = "step_high"

\* C23: a call that returns a fault leaves current_height and target_height
\* as they were before the call.
C23_FaultLeavesHeights ==
    [][(last_op' \in {"tick", "sia", "home", "limit"}
        /\ result' \notin {"Ok", "Panic"})
       => UNCHANGED <<current_height, target_height>>]_vars

\* C24: a step that changes target_height is a step of the encoder handler
\* or sets it to 0, and tick leaves target_height unchanged.
C24_TargetWriters ==
    [][/\ target_height' # target_height
            => last_op' = "sia" \/ target_height' = 0
       /\ last_op' = "tick" => target_height' = target_height]_vars

C24_TickKeptTarget ==
    /\ last_op = "tick" /\ writes # <<>> /\ result = "Ok"
    /\ target_height > 0 /\ current_height = Some(target_height)

\* C25: while the sensor does not report triggered, a tick of an
\* uncalibrated controller issues its whole counter-clockwise train and
\* leaves the controller exactly as it was: nothing counts the homing steps,
\* and the controller leaves Uncalibrated only by a triggered sample or by a
\* limit-switch interrupt.
C25_NoHomingTimeout ==
    [][/\ (current_height = None /\ last_op' = "tick" /\ limit_read' = "high")
            => /\ result' = "Ok"
               /\ writes'[1] = "dir_low"
               /\ CompletedPulses(writes', result') = motor_steps_per_tick
               /\ UNCHANGED mill_vars
       /\ (current_height = None /\ current_height' # None)
            => \/ last_op' = "tick" /\ limit_read' = "low"
               \/ last_op' = "limit"]_vars

C25_JogsOn ==
    /\ prev_op = "tick" /\ last_op = "tick" /\ result = "Ok"
    /\ limit_read = "high" /\ current_height = None
    /\ display = <<"Calibrating">> /\ ~is_enabled
    /\ CompletedPulses(writes, result) = MaxStepsPerTick

\* C26: in every calibrated state current_height <= max_height.
C26_CurrentWithinTravel ==
    current_height # None => current_height[1] <= max_height

\* a set_mode has written m1, m2 and m3
ModeWritten ==
    /\ last_op \in {"motor_new", "set_mode"}
    /\ result \notin {"Motor_M1", "Motor_M2", "Motor_M3"}

\* C27: after a set_mode that wrote its three lines, the levels of m1, m2, m3
\* are those of no other mode than the one asked for.
C27_ModeLinesInjective ==
    ModeWritten
        => \A m \in Modes \ {mode} :
              mode_lines # [i \in 1..3 |-> line_level(mode_table(m)[i])]

\* the lines after a set_mode that wrote its three lines depend on the mode
\* argument only
C27_LinesFollowMode ==
    ModeWritten
        => mode_lines = [i \in 1..3 |-> line_level(mode_table(mode)[i])]

\* C28: a train that is aborted by a failed step-line write, entered with the
\* driver disabled, returns with the driver disabled.
C28_DisabledAfterAbort ==
    [][(last_op' = "tick" /\ result' = "Motor_Step" /\ ~is_enabled)
       => ~is_enabled']_vars

\* C29: a handler entered with its line's pending flag set returns with the
\* flag cleared, before the Mill is installed too.
C29_HandlerClearsPending ==
    [][(isr # "none" /\ isr \in pending /\ isr' = "none")
       => isr \notin pending']_vars

====
